---- MODULE Spec2Model ----
(***************************************************************************)
(* Model of the Trading-APP analytics code:                                *)
(*   src/pages/api/stock.js  - the indicator helpers of the stock endpoint *)
(*   src/unnamed/part_000    - the StockAnalysisApp React component        *)
(*                                                                         *)
(* JavaScript numbers are modelled as exact values: a finite number is a   *)
(* normalised fraction, and the IEEE specials Infinity, -Infinity and NaN  *)
(* are values of their own, as are null and undefined.  Rounding of        *)
(* floating point arithmetic and the sign of zero are not modelled.        *)
(***************************************************************************)
EXTENDS Integers, Sequences, FiniteSets, TLC

VARIABLES
    prices,             \* stock.js: the close series handed to the helpers
    call,               \* the helper that was invoked, with its arguments
    ret,                \* what the invoked helper returned
    allStocks,          \* part_000 useState (line 8)
    criteria,           \* part_000 useState (line 18)
    loading,            \* part_000 useState (line 15)
    filteredStocks,     \* part_000 useState (line 9)
    selectedStocks,     \* part_000 useState (line 10)
    portfolioWeights,   \* part_000 useState (line 11)
    optimizedPortfolio, \* part_000 useState (line 12)
    monteCarloResults,  \* part_000 useState (line 13)
    maxSharpePoint,     \* part_000 useMemo (lines 250-253), last computed value
    pending             \* effects scheduled by the last render and not yet run

vars == <<prices, call, ret, allStocks, criteria, loading, filteredStocks,
          selectedStocks, portfolioWeights, optimizedPortfolio,
          monteCarloResults, maxSharpePoint, pending>>

appVars == <<allStocks, criteria, loading, filteredStocks, selectedStocks,
             portfolioWeights, optimizedPortfolio, monteCarloResults,
             maxSharpePoint, pending>>

-----------------------------------------------------------------------------
(* JavaScript values *)

Abs(x) == IF x < 0 THEN -x ELSE x

Sign(x) == IF x < 0 THEN -1 ELSE IF x = 0 THEN 0 ELSE 1

RECURSIVE GCD(_, _)
GCD(a, b) == IF b = 0 THEN a ELSE GCD(b, a % b)

\* the finite number n/d, in lowest terms with a positive denominator
Num(n, d) ==
    LET g == GCD(Abs(n), Abs(d))
        s == IF d < 0 THEN -1 ELSE 1
    IN  [k |-> "num", n |-> (s * n) \div g, d |-> (s * d) \div g]

\* (an/ad) * (bn/bd), cancelling across before multiplying
Times(an, ad, bn, bd) ==
    LET g1 == IF an = 0 THEN ad ELSE GCD(Abs(an), bd)
        g2 == IF bn = 0 THEN bd ELSE GCD(Abs(bn), ad)
    IN  IF an = 0 \/ bn = 0 THEN [k |-> "num", n |-> 0, d |-> 1]
        ELSE Num((an \div g1) * (bn \div g2), (ad \div g2) * (bd \div g1))

Whole(n) == [k |-> "num", n |-> n, d |-> 1]

Zero == Whole(0)

NaN == [k |-> "nan", n |-> 0, d |-> 0]

\* Infinity (s = 1) and -Infinity (s = -1)
Inf(s) == [k |-> "inf", n |-> s, d |-> 0]

Null == [k |-> "null", n |-> 0, d |-> 0]

Undefined == [k |-> "undefined", n |-> 0, d |-> 0]

\* the irrational-capable value sign(q) * sqrt(|q|) for a fraction q # 0,
\* kept symbolically by its signed square q = n/d
Surd(q) == [k |-> "surd", n |-> q.n, d |-> q.d]

IsNum(x) == x.k = "num"

IsFinite(x) == x.k \in {"num", "surd"}

IsNaN(x) == x.k = "nan"

\* ToNumber: null converts to 0, undefined to NaN
ToNumber(x) == IF x.k = "null" THEN Zero ELSE IF x.k = "undefined" THEN NaN ELSE x

SignOf(x) == IF x.k = "nan" THEN 0 ELSE Sign(x.n)

Neg(x) == IF x.k = "nan" THEN NaN ELSE [x EXCEPT !.n = -x.n]

\* a + b
Add(a0, b0) ==
    LET a == ToNumber(a0)
        b == ToNumber(b0)
    IN  IF a.k = "nan" \/ b.k = "nan" THEN NaN
        ELSE IF a.k = "inf" /\ b.k = "inf" THEN (IF a.n = b.n THEN a ELSE NaN)
        ELSE IF a.k = "inf" THEN a
        ELSE IF b.k = "inf" THEN b
        ELSE LET m == (a.d \div GCD(a.d, b.d)) * b.d
             IN  Num(a.n * (m \div a.d) + b.n * (m \div b.d), m)

\* a - b
Sub(a, b) == Add(a, Neg(ToNumber(b)))

\* a * b
Mul(a0, b0) ==
    LET a == ToNumber(a0)
        b == ToNumber(b0)
    IN  IF a.k = "nan" \/ b.k = "nan" THEN NaN
        ELSE IF a.k = "inf" \/ b.k = "inf"
             THEN (IF SignOf(a) * SignOf(b) = 0 THEN NaN ELSE Inf(SignOf(a) * SignOf(b)))
        ELSE Times(a.n, a.d, b.n, b.d)

\* a / b; b may be a square root (volatility), the quotient is then one too
Div(a0, b0) ==
    LET a == ToNumber(a0)
        b == ToNumber(b0)
    IN  IF a.k = "nan" \/ b.k = "nan" THEN NaN
        ELSE IF a.k = "inf" /\ b.k = "inf" THEN NaN
        ELSE IF a.k = "inf" THEN Inf(IF SignOf(b) < 0 THEN -a.n ELSE a.n)
        ELSE IF b.k = "inf" THEN Zero
        ELSE IF b.n = 0 THEN (IF a.n = 0 THEN NaN ELSE Inf(Sign(a.n)))
        ELSE IF a.n = 0 THEN Zero
        ELSE IF b.k = "surd"
             THEN Surd(Num(Sign(a.n) * Sign(b.n) * a.n * a.n * b.d, a.d * a.d * Abs(b.n)))
        ELSE Times(a.n, a.d, Sign(b.n) * b.d, Abs(b.n))

\* Math.sqrt
Sqrt(a0) ==
    LET a == ToNumber(a0)
    IN  IF a.k = "nan" THEN NaN
        ELSE IF a.n < 0 THEN NaN
        ELSE IF a.k = "inf" THEN a
        ELSE IF a.n = 0 THEN Zero
        ELSE Surd(a)

\* the signed square of a finite value, on which the order of the values is decided
SqKey(x) == IF x.k = "surd" THEN Num(x.n, x.d) ELSE Num(Sign(x.n) * x.n * x.n, x.d * x.d)

\* a < b on values that are not NaN
LessThan(a, b) ==
    IF a.k = "inf" THEN a.n = -1 /\ ~(b.k = "inf" /\ b.n = -1)
    ELSE IF b.k = "inf" THEN b.n = 1
    ELSE SqKey(a).n * SqKey(b).d < SqKey(b).n * SqKey(a).d

\* a > b: false as soon as one side is NaN
Gt(a0, b0) ==
    LET a == ToNumber(a0)
        b == ToNumber(b0)
    IN  IF a.k = "nan" \/ b.k = "nan" THEN FALSE ELSE LessThan(b, a)

\* a >= b: false as soon as one side is NaN
Ge(a0, b0) ==
    LET a == ToNumber(a0)
        b == ToNumber(b0)
    IN  IF a.k = "nan" \/ b.k = "nan" THEN FALSE ELSE ~LessThan(a, b)

\* Math.max(a, b)
MathMax(a0, b0) ==
    LET a == ToNumber(a0)
        b == ToNumber(b0)
    IN  IF a.k = "nan" \/ b.k = "nan" THEN NaN
        ELSE IF LessThan(a, b) THEN b ELSE a

\* !x : null, undefined, 0 and NaN are falsy, every other number is truthy
Not(x) == x.k \in {"null", "undefined", "nan"} \/ (x.k = "num" /\ x.n = 0)

-----------------------------------------------------------------------------
(* JavaScript arrays are sequences; index i of the code is position i + 1 *)

At(arr, i) == IF i >= 0 /\ i < Len(arr) THEN arr[i + 1] ELSE Undefined

\* arr.slice(start, end)
slice(arr, start, end) ==
    LET n  == Len(arr)
        s0 == IF start < 0 THEN (IF n + start < 0 THEN 0 ELSE n + start)
              ELSE (IF start > n THEN n ELSE start)
        e0 == IF end < 0 THEN (IF n + end < 0 THEN 0 ELSE n + end)
              ELSE (IF end > n THEN n ELSE end)
    IN  IF e0 <= s0 THEN <<>> ELSE SubSeq(arr, s0 + 1, e0)

\* arr.reduce((a, b) => a + b, init)
RECURSIVE reduceAdd(_, _)
reduceAdd(arr, init) ==
    IF arr = <<>> THEN init ELSE reduceAdd(Tail(arr), Add(init, Head(arr)))

\* arr.reduce((a, b) => a + b) on a non-empty array
reduceAdd1(arr) == reduceAdd(Tail(arr), Head(arr))

\* arr.filter(x => x !== null)
RECURSIVE filterNotNull(_)
filterNotNull(arr) ==
    IF arr = <<>> THEN <<>>
    ELSE IF Head(arr).k = "null" THEN filterNotNull(Tail(arr))
    ELSE <<Head(arr)>> \o filterNotNull(Tail(arr))

-----------------------------------------------------------------------------
(* src/pages/api/stock.js *)

\* calculateSMA with the lookback test off by one (i < period)
calculateSMA_lateStart(ps, period) ==
    [j \in 1..Len(ps) |->
        LET i == j - 1
        IN  IF i < period THEN Null
            ELSE Div(reduceAdd(slice(ps, i - period + 1, i + 1), Zero), Whole(period))]

calculateSMA(ps, period) ==
    [j \in 1..Len(ps) |->
        LET i == j - 1
        IN  IF i < period - 1 THEN Null
            ELSE Div(reduceAdd(slice(ps, i - period + 1, i + 1), Zero), Whole(period))]

\* the gains (resp. losses) array after the iteration for price index i
gains(ps, i) == [j \in 1..i |-> MathMax(Sub(ps[j + 1], ps[j]), Zero)]

losses(ps, i) == [j \in 1..i |-> MathMax(Neg(Sub(ps[j + 1], ps[j])), Zero)]

\* rsiEntry with a trailing window that is one difference short
rsiEntry_shortWindow(ps, period, i) ==
    IF i < period THEN Null
    ELSE LET avgGain == Div(reduceAdd(slice(gains(ps, i), i - period + 1, i), Zero), Whole(period))
             avgLoss == Div(reduceAdd(slice(losses(ps, i), i - period + 1, i), Zero), Whole(period))
             rs      == Div(avgGain, avgLoss)
         IN  Sub(Whole(100), Div(Whole(100), Add(Whole(1), rs)))

\* the value pushed by the iteration for price index i (1 <= i < prices.length)
rsiEntry(ps, period, i) ==
    IF i < period THEN Null
    ELSE LET avgGain == Div(reduceAdd1(slice(gains(ps, i), i - period, i)), Whole(period))
             avgLoss == Div(reduceAdd1(slice(losses(ps, i), i - period, i)), Whole(period))
             rs      == Div(avgGain, avgLoss)
         IN  Sub(Whole(100), Div(Whole(100), Add(Whole(1), rs)))

calculateRSI(ps, period) ==
    [i \in 1..(IF Len(ps) = 0 THEN 0 ELSE Len(ps) - 1) |-> rsiEntry(ps, period, i)]

\* the first k entries of calculateEMA(ps, period)
RECURSIVE emaPrefix(_, _, _)
emaPrefix(ps, period, k) ==
    IF k = 0 THEN <<>>
    ELSE LET ema        == emaPrefix(ps, period, k - 1)
             i          == k - 1
             multiplier == Div(Whole(2), Whole(period + 1))
         IN  IF i < period - 1 THEN Append(ema, Null)
             ELSE IF i = period - 1
                  THEN Append(ema, Div(reduceAdd1(slice(ps, 0, period)), Whole(period)))
             ELSE Append(ema, Add(Mul(Sub(ps[i + 1], ema[i]), multiplier), ema[i]))

calculateEMA(ps, period) == emaPrefix(ps, period, Len(ps))

\* one entry of the macd line, from the two EMA entries of the same index
macdEntry(fast, slow) ==
    IF Not(fast) \/ Not(slow) THEN Null ELSE Sub(fast, slow)

calculateMACD(ps, fastPeriod, slowPeriod, signalPeriod) ==
    LET ema12    == calculateEMA(ps, fastPeriod)
        ema26    == calculateEMA(ps, slowPeriod)
        macdLine == [j \in 1..Len(ema12) |-> macdEntry(ema12[j], At(ema26, j - 1))]
    IN  [macd |-> macdLine,
         signal |-> calculateEMA(filterNotNull(macdLine), signalPeriod)]

calculateDailyReturns(ps) ==
    [j \in 1..Len(ps) |->
        IF j - 1 = 0 THEN Zero ELSE Div(Sub(ps[j], ps[j - 1]), ps[j - 1])]

-----------------------------------------------------------------------------
(* src/unnamed/part_000: the portfolio functions of StockAnalysisApp *)

\* the annualisation factor of lines 129, 130, 230 and 239
TradingDays == 252

\* arr.reduce((sum, ret, i) => sum + ret * weights[i], 0)
RECURSIVE weightedSum(_, _, _)
weightedSum(dayReturns, weights, n) ==
    IF n = 0 THEN Zero
    ELSE Add(weightedSum(dayReturns, weights, n - 1),
             Mul(dayReturns[n], At(weights, n - 1)))

\* arr.reduce((sum, ret) => sum + Math.pow(ret - meanReturn, 2), 0)
RECURSIVE sumSquaredDeviations(_, _)
sumSquaredDeviations(arr, meanReturn) ==
    IF arr = <<>> THEN Zero
    ELSE LET front == SubSeq(arr, 1, Len(arr) - 1)
             dev   == Sub(arr[Len(arr)], meanReturn)
         IN  Add(sumSquaredDeviations(front, meanReturn), Mul(dev, dev))

calculatePortfolioMetrics(weights, returns) ==
    LET portfolioReturns ==
            [d \in 1..Len(returns) |-> weightedSum(returns[d], weights, Len(returns[d]))]
        meanReturn == Div(reduceAdd(portfolioReturns, Zero), Whole(Len(portfolioReturns)))
        variance   == Div(sumSquaredDeviations(portfolioReturns, meanReturn),
                          Whole(Len(portfolioReturns)))
        volatility == Sqrt(Mul(variance, Whole(TradingDays)))
        annualizedReturn == Mul(meanReturn, Whole(TradingDays))
    IN  [return |-> annualizedReturn,
         volatility |-> volatility,
         sharpeRatio |-> IF volatility # Zero THEN Div(annualizedReturn, volatility) ELSE Zero]

\* meanReturns[j] after the loops of lines 146-154
columnMean(returnsData, j) ==
    Div(reduceAdd([d \in 1..Len(returnsData) |-> At(returnsData[d], j - 1)], Zero),
        Whole(Len(returnsData)))

\* sumProduct after the loop of lines 159-162
RECURSIVE sumProduct(_, _, _, _)
sumProduct(returnsData, i, j, numDays) ==
    IF numDays = 0 THEN Zero
    ELSE Add(sumProduct(returnsData, i, j, numDays - 1),
             Mul(Sub(At(returnsData[numDays], i - 1), columnMean(returnsData, i)),
                 Sub(At(returnsData[numDays], j - 1), columnMean(returnsData, j))))

calculateCovarianceMatrix(returnsData) ==
    IF Len(returnsData) = 0 \/ Len(returnsData[1]) = 0 THEN <<>>
    ELSE LET numStocks == Len(returnsData[1])
             numDays   == Len(returnsData)
         IN  [i \in 1..numStocks |->
                [j \in 1..numStocks |->
                    Div(sumProduct(returnsData, i, j, numDays), Whole(numDays - 1))]]

\* lines 182-184 and 224-226: the draws of Math.random(), divided by their sum
randomWeights(draws) ==
    LET sum == reduceAdd(draws, Zero)
    IN  [j \in 1..Len(draws) |-> Div(draws[j], sum)]

\* the sign of the comparator (a, b) => a.risk - b.risk; "nan" when it is NaN
compareRisk(a, b) ==
    IF IsNaN(a.risk) \/ IsNaN(b.risk) THEN "nan"
    ELSE IF a.risk.k = "inf" /\ b.risk.k = "inf" /\ a.risk.n = b.risk.n THEN "nan"
    ELSE IF LessThan(a.risk, b.risk) THEN "neg"
    ELSE IF LessThan(b.risk, a.risk) THEN "pos"
    ELSE "zero"

\* p put into an ascending sequence behind every point that does not come after it
RECURSIVE insertByRisk(_, _)
insertByRisk(sorted, p) ==
    IF sorted = <<>> THEN <<p>>
    ELSE IF compareRisk(sorted[Len(sorted)], p) = "pos"
         THEN Append(insertByRisk(SubSeq(sorted, 1, Len(sorted) - 1), p), sorted[Len(sorted)])
    ELSE Append(sorted, p)

RECURSIVE stableSortByRisk(_)
stableSortByRisk(points) ==
    IF points = <<>> THEN <<>>
    ELSE insertByRisk(stableSortByRisk(SubSeq(points, 1, Len(points) - 1)), points[Len(points)])

Reorderings(points) ==
    {[j \in 1..Len(points) |-> points[f[j]]] :
        f \in {g \in [1..Len(points) -> 1..Len(points)] :
                 \A a, b \in 1..Len(points) : a # b => g[a] # g[b]}}

\* frontierPoints.sort((a, b) => a.risk - b.risk): the sort is stable; when the
\* comparator yields NaN for some pair it is not a consistent comparator and
\* the resulting order is left to the implementation
sortByRisk(points) ==
    IF \E a, b \in 1..Len(points) : a # b /\ compareRisk(points[a], points[b]) = "nan"
    THEN Reorderings(points)
    ELSE {stableSortByRisk(points)}

\* the rows read by lines 173-176: one row per day of the window
frontierReturns(selected, window) ==
    [d \in 1..window |-> [s \in 1..Len(selected) |-> At(selected[s].dailyReturns, d - 1)]]

\* the point pushed by lines 181-193 for one vector of draws
frontierPoint(selected, window, draws) ==
    LET weights == randomWeights(draws)
        metrics == calculatePortfolioMetrics(weights, frontierReturns(selected, window))
    IN  [k |-> "point",
         risk |-> metrics.volatility,
         return |-> metrics.return,
         sharpeRatio |-> metrics.sharpeRatio,
         weights |-> weights]

\* generateEfficientFrontier with the draws of its numPoints iterations given:
\* the set of the collections it can return
generateEfficientFrontier(selected, window, draws) ==
    IF Len(selected) = 0 THEN {<<>>}
    ELSE sortByRisk([p \in 1..Len(draws) |-> frontierPoint(selected, window, draws[p])])

\* the reduce of lines 201-203 over the first n points
RECURSIVE maxSharpeFold(_, _)
maxSharpeFold(frontierPoints, n) ==
    IF n = 0 THEN frontierPoints[1]
    ELSE LET max   == maxSharpeFold(frontierPoints, n - 1)
             point == frontierPoints[n]
         IN  IF Gt(point.sharpeRatio, max.sharpeRatio) THEN point ELSE max

findMaxSharpeRatio(frontierPoints) ==
    IF Len(frontierPoints) = 0 THEN Null
    ELSE maxSharpeFold(frontierPoints, Len(frontierPoints))

\* lines 212-215
transposedReturns(selected) ==
    [col \in 1..Len(selected[1].dailyReturns) |->
        [row \in 1..Len(selected) |-> At(selected[row].dailyReturns, col - 1)]]

\* lines 219-221
meanDailyReturns(selected) ==
    [s \in 1..Len(selected) |->
        Div(reduceAdd(selected[s].dailyReturns, Zero), Whole(Len(selected[s].dailyReturns)))]

\* lines 228-231
RECURSIVE expectedAnnualReturn(_, _, _)
expectedAnnualReturn(weights, means, n) ==
    IF n = 0 THEN Zero
    ELSE Add(expectedAnnualReturn(weights, means, n - 1),
             Mul(Mul(weights[n], means[n]), Whole(TradingDays)))

\* the inner loop of lines 235-237: the terms of row r over the columns 1..c
RECURSIVE quadraticRow(_, _, _, _)
quadraticRow(weights, covMatrix, r, c) ==
    IF c = 0 THEN Zero
    ELSE Add(quadraticRow(weights, covMatrix, r, c - 1),
             Mul(Mul(weights[r], weights[c]), covMatrix[r][c]))

\* quadraticForm with the diagonal terms only
RECURSIVE quadraticForm_diagonalOnly(_, _, _, _)
quadraticForm_diagonalOnly(weights, covMatrix, size, rows) ==
    IF rows = 0 THEN Zero
    ELSE Add(quadraticForm_diagonalOnly(weights, covMatrix, size, rows - 1),
             Mul(Mul(weights[rows], weights[rows]), covMatrix[rows][rows]))

\* lines 233-238: all size * size terms, added up row by row
RECURSIVE quadraticForm(_, _, _, _)
quadraticForm(weights, covMatrix, size, rows) ==
    IF rows = 0 THEN Zero
    ELSE Add(quadraticForm(weights, covMatrix, size, rows - 1),
             quadraticRow(weights, covMatrix, rows, size))

\* the sample pushed by one iteration of lines 223-245
monteCarloSample(selected, covMatrix, draws) ==
    LET weights == randomWeights(draws)
        size    == Len(selected)
        portfolioVariance == quadraticForm(weights, covMatrix, size, size)
    IN  [return |-> expectedAnnualReturn(weights, meanDailyReturns(selected), size),
         volatility |-> Sqrt(Mul(portfolioVariance, Whole(TradingDays)))]

\* runMonteCarloSimulation with the draws of its iterations given; reading
\* covMatrix[r][c] of the empty matrix raises a TypeError
runMonteCarloSimulation(selected, draws) ==
    IF Len(selected) = 0 THEN [outcome |-> "return", value |-> Null]
    ELSE LET covMatrix == calculateCovarianceMatrix(transposedReturns(selected))
         IN  IF Len(draws) > 0 /\ covMatrix = <<>>
             THEN [outcome |-> "throw", value |-> "TypeError"]
             ELSE [outcome |-> "return",
                   value |-> [t \in 1..Len(draws) |->
                                 monteCarloSample(selected, covMatrix, draws[t])]]

-----------------------------------------------------------------------------
(* what a call leaves behind *)

NoCall == [fn |-> "none", period |-> 0, slowPeriod |-> 0, signalPeriod |-> 0, arg |-> Null]

\* a helper of stock.js called with its periods (the closes are in prices)
Invoke(f, p, s, g) ==
    [fn |-> f, period |-> p, slowPeriod |-> s, signalPeriod |-> g, arg |-> Null]

\* a function of part_000 called with argument a
InvokeWith(f, a) ==
    [fn |-> f, period |-> 0, slowPeriod |-> 0, signalPeriod |-> 0, arg |-> a]

NoRet == [outcome |-> "none", value |-> Null]

Returned(v) == [outcome |-> "return", value |-> v]

Thrown(e) == [outcome |-> "throw", value |-> e]

-----------------------------------------------------------------------------
(* the state of the component after construction (part_000 lines 8-26) *)

\* criteria are kept in tenths, so that 1.5 is 15
InitialCriteria ==
    [maxPE |-> 250, maxPB |-> 50, minROE |-> 100, minROI |-> 80,
     maxDebtToEquity |-> 15, maxPEG |-> 20, minEPS |-> 10]

AppConstructed ==
    /\ allStocks = <<>>
    /\ criteria = InitialCriteria
    /\ loading = TRUE
    /\ filteredStocks = <<>>
    /\ selectedStocks = <<>>
    /\ portfolioWeights = <<>>
    /\ optimizedPortfolio = Null
    /\ monteCarloResults = Null
    /\ maxSharpePoint = Null
    /\ pending = {}

-----------------------------------------------------------------------------
(* The indicator helpers of stock.js, applied to bounded close series *)

MaxLen == 4

MaxPeriod == 3

PriceValues == {0, 1, 2}

RECURSIVE SeqsUpTo(_, _)
SeqsUpTo(S, n) ==
    IF n = 0 THEN {<<>>}
    ELSE LET shorter == SeqsUpTo(S, n - 1)
         IN  shorter \cup {Append(s, x) : s \in {t \in shorter : Len(t) = n - 1}, x \in S}

Closes(s) == [j \in 1..Len(s) |-> Whole(s[j])]

\* the ten closes of the worked example
ExampleCloses == Closes(<<100, 102, 101, 105, 110, 108, 107, 112, 115, 113>>)

\* the default period of calculateRSI
RSI_PERIOD == 14

\* sixteen closes: a strictly increasing run, a rise followed by a flat run of
\* fourteen unchanged closes, and a run that rises and falls
RisingCloses == [j \in 1..(RSI_PERIOD + 2) |-> Whole(j)]

FlatTailCloses == [j \in 1..(RSI_PERIOD + 2) |-> IF j = 1 THEN Whole(1) ELSE Whole(2)]

MixedCloses == [j \in 1..(RSI_PERIOD + 2) |-> IF j % 3 = 0 THEN Whole(1) ELSE Whole(j)]

PriceInputs ==
    {Closes(s) : s \in SeqsUpTo(PriceValues, MaxLen)}
        \cup {ExampleCloses, RisingCloses, FlatTailCloses, MixedCloses}

\* the periods followed: the short ones, the 5 of the worked example, the default of the RSI
Periods == (1..MaxPeriod) \cup {5, RSI_PERIOD}

InitIndicators ==
    /\ prices \in PriceInputs
    /\ call = NoCall
    /\ ret = NoRet
    /\ AppConstructed

CallSMA ==
    /\ call.fn = "none"
    /\ \E period \in Periods :
          /\ call' = Invoke("calculateSMA", period, 0, 0)
          /\ ret' = Returned(calculateSMA(prices, period))
    /\ UNCHANGED <<prices, appVars>>

CallRSI ==
    /\ call.fn = "none"
    /\ \E period \in Periods :
          /\ call' = Invoke("calculateRSI", period, 0, 0)
          /\ ret' = Returned(calculateRSI(prices, period))
    /\ UNCHANGED <<prices, appVars>>

\* the recurrence of the EMA is followed on the short series only
CallMACD ==
    /\ call.fn = "none"
    /\ Len(prices) <= MaxLen
    /\ \E fastPeriod \in 1..MaxPeriod, slowPeriod \in 1..MaxPeriod, signalPeriod \in 1..MaxPeriod :
          /\ call' = Invoke("calculateMACD", fastPeriod, slowPeriod, signalPeriod)
          /\ ret' = Returned(calculateMACD(prices, fastPeriod, slowPeriod, signalPeriod))
    /\ UNCHANGED <<prices, appVars>>

CallDailyReturns ==
    /\ call.fn = "none"
    /\ call' = Invoke("calculateDailyReturns", 0, 0, 0)
    /\ ret' = Returned(calculateDailyReturns(prices))
    /\ UNCHANGED <<prices, appVars>>

NextIndicators == CallSMA \/ CallRSI \/ CallMACD \/ CallDailyReturns

SpecIndicators == InitIndicators /\ [][NextIndicators]_vars

-----------------------------------------------------------------------------
(* The portfolio functions of part_000, applied to bounded selections *)

MaxDays == 2

DrawGrid == 2

numPoints == 2

numSimulations == 1

MaxPoints == 3

ReturnValues == {-1, 1}

\* a stock as fetchStockData delivers it; the fundamentals are kept in tenths
Stock(symbol, sector, pe, pb, roe, roi, debtToEquity, peg, eps, dailyReturns) ==
    [symbol |-> symbol, sector |-> sector, pe |-> pe, pb |-> pb, roe |-> roe,
     roi |-> roi, debtToEquity |-> debtToEquity, peg |-> peg, eps |-> eps,
     dailyReturns |-> dailyReturns]

Asset(symbol, returnSeries) ==
    Stock(symbol, "Technology", 100, 10, 200, 200, 5, 10, 50, Closes(returnSeries))

ReturnSeries == SeqsUpTo(ReturnValues, MaxDays)

\* no asset, one asset, or two assets with return series of one length
SelectionInputs ==
    {<<>>}
        \cup {<<Asset("AAPL", r)>> : r \in ReturnSeries}
        \cup {<<Asset("AAPL", rs[1]), Asset("MSFT", rs[2])>> :
                 rs \in {x \in ReturnSeries \X ReturnSeries : Len(x[1]) = Len(x[2])}}

\* the outcomes of Math.random(): 0, 1/DrawGrid, ..., (DrawGrid-1)/DrawGrid
DrawValues == {Num(n, DrawGrid) : n \in 0..(DrawGrid - 1)}

\* the outcomes of Array.from({length: size}, () => Math.random())
DrawVectors(size) == [1..size -> DrawValues]

\* the code reads the first 252 daily returns of every stock (line 174); the
\* model reads the first MaxDays
FrontierWindow == MaxDays

\* a frontier point as lines 186-192 build it from the metrics of line 132-136
PointInput(risk, return) ==
    [k |-> "point",
     risk |-> Whole(risk),
     return |-> Whole(return),
     sharpeRatio |-> IF Whole(risk) # Zero THEN Div(Whole(return), Whole(risk)) ELSE Zero,
     weights |-> <<Whole(1)>>]

PointInputs == {PointInput(risk, return) : risk \in 0..2, return \in {-1, 1, 2}}

\* collections of at most MaxPoints points in ascending order of risk
FrontierInputs ==
    {fp \in SeqsUpTo(PointInputs, MaxPoints) :
        \A j \in 1..(Len(fp) - 1) : ~LessThan(fp[j + 1].risk, fp[j].risk)}

InitPortfolio ==
    /\ prices = <<>>
    /\ call = NoCall
    /\ ret = NoRet
    /\ allStocks = <<>>
    /\ criteria = InitialCriteria
    /\ loading = FALSE
    /\ selectedStocks \in SelectionInputs
    /\ filteredStocks = selectedStocks
    /\ portfolioWeights = <<>>
    /\ optimizedPortfolio = Null
    /\ monteCarloResults = Null
    /\ maxSharpePoint = Null
    /\ pending = {}

CallGenerateEfficientFrontier ==
    /\ call.fn = "none"
    /\ \E draws \in [1..numPoints -> DrawVectors(Len(selectedStocks))] :
          \E frontier \in generateEfficientFrontier(selectedStocks, FrontierWindow, draws) :
             /\ call' = InvokeWith("generateEfficientFrontier", draws)
             /\ ret' = Returned(frontier)
    /\ UNCHANGED <<prices, appVars>>

\* call.arg keeps the weight vectors the iterations computed
CallRunMonteCarloSimulation ==
    /\ call.fn = "none"
    /\ \E draws \in [1..numSimulations -> DrawVectors(Len(selectedStocks))] :
          /\ ret' = runMonteCarloSimulation(selectedStocks, draws)
          /\ call' = InvokeWith("runMonteCarloSimulation",
                        IF Len(selectedStocks) = 0 THEN <<>>
                        ELSE IF ret'.outcome = "throw" THEN <<randomWeights(draws[1])>>
                        ELSE [t \in 1..Len(draws) |-> randomWeights(draws[t])])
    /\ UNCHANGED <<prices, appVars>>

CallCalculateCovarianceMatrix ==
    /\ call.fn = "none"
    /\ LET returnsData == IF Len(selectedStocks) = 0 THEN <<>>
                          ELSE transposedReturns(selectedStocks)
       IN  /\ call' = InvokeWith("calculateCovarianceMatrix", returnsData)
           /\ ret' = Returned(calculateCovarianceMatrix(returnsData))
    /\ UNCHANGED <<prices, appVars>>

\* lines 250-253: called on the frontier generateEfficientFrontier returned,
\* and (the selection playing no part in it) on given collections
CallFindMaxSharpeRatio ==
    /\ \/ /\ call.fn = "generateEfficientFrontier"
          /\ call' = InvokeWith("findMaxSharpeRatio", ret.value)
          /\ ret' = Returned(findMaxSharpeRatio(ret.value))
       \/ /\ call.fn = "none"
          /\ Len(selectedStocks) = 0
          /\ \E frontierPoints \in FrontierInputs :
                /\ call' = InvokeWith("findMaxSharpeRatio", frontierPoints)
                /\ ret' = Returned(findMaxSharpeRatio(frontierPoints))
    /\ UNCHANGED <<prices, appVars>>

NextPortfolio ==
    \/ CallGenerateEfficientFrontier
    \/ CallRunMonteCarloSimulation
    \/ CallCalculateCovarianceMatrix
    \/ CallFindMaxSharpeRatio

SpecPortfolio == InitPortfolio /\ [][NextPortfolio]_vars

-----------------------------------------------------------------------------
(* src/unnamed/part_000: the state, the memos and the effects of the component *)

\* line 65: the least number of sectors a selection needs
MinSectors == 4

\* lines 84 and 88: the most stocks a selection holds
MaxSelected == 10

\* the predicate of allStocks.filter (lines 47-55)
passesCriteria(stock, c) ==
    /\ stock.pe <= c.maxPE
    /\ stock.pb <= c.maxPB
    /\ stock.roe >= c.minROE
    /\ stock.roi >= c.minROI
    /\ stock.debtToEquity <= c.maxDebtToEquity
    /\ stock.peg <= c.maxPEG
    /\ stock.eps >= c.minEPS

\* Object.keys(sectorCounts): the sectors in the order of their first stock
RECURSIVE sectorsWithStocks(_)
sectorsWithStocks(filtered) ==
    IF filtered = <<>> THEN <<>>
    ELSE LET front == sectorsWithStocks(SubSeq(filtered, 1, Len(filtered) - 1))
             last  == filtered[Len(filtered)].sector
         IN  IF \E j \in 1..Len(front) : front[j] = last THEN front ELSE Append(front, last)

\* lines 71-77: the first stock of each of the first four sectors
sectorPicks(filtered, sectors) ==
    [j \in 1..Len(slice(sectors, 0, MinSectors)) |->
        SelectSeq(filtered, LAMBDA stock : stock.sector = sectors[j])[1]]

\* the stable sort of line 82: the greater roe + roi first
RECURSIVE sortByPerformance(_)
sortByPerformance(stocks) ==
    IF stocks = <<>> THEN <<>>
    ELSE LET front  == sortByPerformance(SubSeq(stocks, 1, Len(stocks) - 1))
             last   == stocks[Len(stocks)]
             before == SelectSeq(front, LAMBDA s : s.roe + s.roi >= last.roe + last.roi)
             after  == SelectSeq(front, LAMBDA s : s.roe + s.roi < last.roe + last.roi)
         IN  before \o <<last>> \o after

\* the selection the filter effect computes (lines 47-93)
screenedStocks(stocks, c) ==
    LET filtered == SelectSeq(stocks, LAMBDA stock : passesCriteria(stock, c))
        sectors  == sectorsWithStocks(filtered)
    IN  IF Len(sectors) >= MinSectors
        THEN LET picks     == sectorPicks(filtered, sectors)
                 remaining == sortByPerformance(
                                  SelectSeq(filtered, LAMBDA stock :
                                      ~\E j \in 1..Len(picks) : picks[j].symbol = stock.symbol))
                 room      == IF Len(picks) >= MaxSelected THEN 0 ELSE MaxSelected - Len(picks)
                 topStocks == picks \o slice(remaining, 0, room)
             IN  slice(topStocks, 0, MaxSelected)
        ELSE <<>>

\* lines 258-261: the object keyed by symbol; a later stock of the same symbol
\* overwrites an earlier one
weightsBySymbol(selected, point) ==
    [symbol \in {selected[j].symbol : j \in 1..Len(selected)} |->
        LET last == CHOOSE j \in 1..Len(selected) :
                        /\ selected[j].symbol = symbol
                        /\ \A i \in (j + 1)..Len(selected) : selected[i].symbol # symbol
        IN  At(point.weights, last - 1)]

\* the stocks fetchStockData delivers: four sectors, the fourth held by two
\* stocks that the default criteria tell apart (GOOGL fails maxPE, META passes)
dailyReturnsOf(first, other) ==
    [d \in 1..FrontierWindow |-> IF d = 1 THEN Whole(first) ELSE Whole(other)]

StockUniverse ==
    << Stock("AAPL", "Technology", 200, 30, 300, 200, 10, 15, 60, dailyReturnsOf(1, -1)),
       Stock("JNJ", "Healthcare", 150, 40, 200, 150, 5, 18, 50, dailyReturnsOf(-1, 1)),
       Stock("BRK.B", "Financial", 100, 15, 120, 100, 3, 12, 40, dailyReturnsOf(1, 1)),
       Stock("GOOGL", "Communication", 300, 45, 250, 180, 2, 14, 30, dailyReturnsOf(-1, -1)),
       Stock("META", "Communication", 220, 35, 260, 190, 1, 11, 15, dailyReturnsOf(1, 2)) >>

\* what the inputs of renderScreeningCriteria are set to in the model: two of
\* the seven inputs are edited, the others keep their initial value
CriteriaInputs == [maxPE |-> {0, 250, 500}, minEPS |-> {10, 20}]

CriteriaCombos ==
    {[InitialCriteria EXCEPT !.maxPE = pe, !.minEPS = eps] :
        pe \in CriteriaInputs.maxPE, eps \in CriteriaInputs.minEPS}

\* the selections the filter effect can make of the universe
Selections == {<<>>} \cup {screenedStocks(StockUniverse, c) : c \in CriteriaCombos}

\* the draws of one weight vector followed in the component: the first draw is
\* free, the others repeat the second
AppDrawVectors(size) ==
    {v \in DrawVectors(size) : \A j \in 2..size : v[j] = v[IF size >= 2 THEN 2 ELSE 1]}

\* lines 250-253: the values the two memos can take for a selection
maxSharpePoints(selected) ==
    {IF Len(efficientFrontier) > 0 THEN findMaxSharpeRatio(efficientFrontier) ELSE Null :
        efficientFrontier \in
            UNION {generateEfficientFrontier(selected, FrontierWindow, draws) :
                      draws \in [1..numPoints -> AppDrawVectors(Len(selected))]}}

\* maxSharpePoints, tabulated once over the selections
maxSharpePointsOf == [selected \in Selections |-> maxSharpePoints(selected)]

\* lines 266-268: what runMonteCarloSimulation() can hand to the effect,
\* tabulated once over the selections
mcResultsOf ==
    [selected \in Selections |->
        {runMonteCarloSimulation(selected, draws) :
            draws \in [1..numSimulations -> AppDrawVectors(Len(selected))]}]

\* the component is mounted and its first effects have run: the fetch of
\* loadStocks is in flight, the filter effect has returned on `loading`, no
\* point was there to adopt and the simulation of no stock has returned null
InitApp ==
    /\ prices = <<>>
    /\ call = NoCall
    /\ ret = NoRet
    /\ AppConstructed

\* lines 36-38: the fetch resolves
LoadStocks ==
    /\ loading
    /\ allStocks' = StockUniverse
    /\ loading' = FALSE
    /\ pending' = pending \cup {"filter"}
    /\ UNCHANGED <<prices, call, ret, criteria, filteredStocks, selectedStocks,
                   portfolioWeights, optimizedPortfolio, monteCarloResults, maxSharpePoint>>

\* the onChange handlers of lines 284-341: a new criteria object every time
SetCriteria ==
    /\ \E field \in DOMAIN CriteriaInputs :
          \E value \in CriteriaInputs[field] :
             criteria' = [criteria EXCEPT ![field] = value]
    /\ pending' = pending \cup {"filter"}
    /\ UNCHANGED <<prices, call, ret, allStocks, loading, filteredStocks, selectedStocks,
                   portfolioWeights, optimizedPortfolio, monteCarloResults, maxSharpePoint>>

\* lines 44-94, and the render its two setters cause: selectedStocks is a new
\* array, so both memos are computed again and both later effects are due
FilterEffect ==
    /\ "filter" \in pending
    /\ IF loading
       THEN /\ pending' = pending \ {"filter"}
            /\ UNCHANGED <<filteredStocks, selectedStocks, maxSharpePoint>>
       ELSE /\ filteredStocks' = screenedStocks(allStocks, criteria)
            /\ selectedStocks' = screenedStocks(allStocks, criteria)
            /\ maxSharpePoint' \in maxSharpePointsOf[selectedStocks']
            /\ pending' = (pending \ {"filter"}) \cup {"optimize", "monteCarlo"}
    /\ UNCHANGED <<prices, call, ret, allStocks, criteria, loading,
                   portfolioWeights, optimizedPortfolio, monteCarloResults>>

\* lines 255-264
OptimizeEffect ==
    /\ "optimize" \in pending
    /\ pending' = pending \ {"optimize"}
    /\ IF ~Not(maxSharpePoint)
       THEN /\ optimizedPortfolio' = maxSharpePoint
            /\ portfolioWeights' = weightsBySymbol(selectedStocks, maxSharpePoint)
       ELSE UNCHANGED <<optimizedPortfolio, portfolioWeights>>
    /\ UNCHANGED <<prices, call, ret, allStocks, criteria, loading, filteredStocks,
                   selectedStocks, monteCarloResults, maxSharpePoint>>

\* lines 266-269; the stocks of the universe have returns, so that the
\* simulation returns
MonteCarloEffect ==
    /\ "monteCarlo" \in pending
    /\ \E mcResults \in mcResultsOf[selectedStocks] :
          /\ mcResults.outcome = "return"
          /\ monteCarloResults' = mcResults.value
    /\ pending' = pending \ {"monteCarlo"}
    /\ UNCHANGED <<prices, call, ret, allStocks, criteria, loading, filteredStocks,
                   selectedStocks, portfolioWeights, optimizedPortfolio, maxSharpePoint>>

NextApp ==
    \/ LoadStocks
    \/ SetCriteria
    \/ FilterEffect
    \/ OptimizeEffect
    \/ MonteCarloEffect

SpecApp == InitApp /\ [][NextApp]_vars

-----------------------------------------------------------------------------
(* Properties of the indicator helpers *)

\* the integer sum of the closes at positions lo..hi (the closes are whole numbers)
RECURSIVE SumCloses(_, _, _)
SumCloses(ps, lo, hi) == IF hi < lo THEN 0 ELSE ps[hi].n + SumCloses(ps, lo, hi - 1)

NonConstant(ps) == \E i, j \in 1..Len(ps) : ps[i] # ps[j]

StrictlyIncreasing(ps) == \A j \in 1..(Len(ps) - 1) : ps[j].n < ps[j + 1].n

\* a number between 0 and 100, both included
Within0To100(x) == x.k = "num" /\ x.n >= 0 /\ x.n <= 100 * x.d

NonFinite(x) == x.k \in {"inf", "nan"}

\* C1: for a period P >= 1 and a series of at least P closes, calculateSMA
\* returns a series as long as the closes, null at the indices 0..P-2, and at
\* every index i >= P-1 a number that, multiplied by P, is the sum of the
\* closes at i-P+1..i.
C1_SMAIsTrailingMean ==
    (call.fn = "calculateSMA" /\ call.period >= 1 /\ Len(prices) >= call.period) =>
        LET P   == call.period
            sma == ret.value
        IN  /\ ret.outcome = "return"
            /\ Len(sma) = Len(prices)
            /\ \A i \in 0..(Len(prices) - 1) :
                  IF i <= P - 2 THEN sma[i + 1] = Null
                  ELSE /\ sma[i + 1].k = "num"
                       /\ sma[i + 1].n * P = SumCloses(prices, i - P + 2, i + 1) * sma[i + 1].d

\* the worked example: SMA(S, 5) is null at 0..3 and 103.6 at index 4
C1_Witness ==
    /\ call.fn = "calculateSMA"
    /\ call.period = 5
    /\ prices = ExampleCloses
    /\ \A j \in 1..4 : ret.value[j] = Null
    /\ ret.value[5] = Num(1036, 10)

\* C2: for a series that is not constant, every entry of calculateRSI(S, 14)
\* that is not null is a number in [0, 100], and for a strictly increasing
\* series every such entry is 100.
C2_RSIWithinRange ==
    (call.fn = "calculateRSI" /\ call.period = RSI_PERIOD /\ NonConstant(prices)) =>
        /\ \A j \in 1..Len(ret.value) :
              ret.value[j] # Null => Within0To100(ret.value[j])
        /\ StrictlyIncreasing(prices) =>
              \A j \in 1..Len(ret.value) :
                 ret.value[j] # Null => ret.value[j] = Whole(100)

\* C5: calculateDailyReturns returns 0 at index 0, and a close of 0 at index
\* i-1 ends in an error (or a sentinel), never in a returned series holding
\* Infinity or NaN at index i.
C5_DailyReturnsRejectZeroPrice ==
    (call.fn = "calculateDailyReturns") =>
        /\ (ret.outcome = "return" /\ Len(prices) >= 1) => ret.value[1] = Zero
        /\ \A j \in 2..Len(prices) :
              prices[j - 1] = Zero =>
                 \/ ret.outcome = "throw"
                 \/ ~NonFinite(ret.value[j])

\* C8: the macd line is defined at an index exactly when both EMAs are defined
\* there, and is then their difference.
C8_MACDDefinedWhenBothEMAs ==
    (call.fn = "calculateMACD") =>
        LET fast == calculateEMA(prices, call.period)
            slow == calculateEMA(prices, call.slowPeriod)
        IN  \A j \in 1..Len(prices) :
               /\ (ret.value.macd[j] # Null) <=> (fast[j] # Null /\ slow[j] # Null)
               /\ (fast[j] # Null /\ slow[j] # Null) =>
                     ret.value.macd[j] = Sub(fast[j], slow[j])

\* the sum of the gains (up = TRUE) or of the losses of the differences lo..hi,
\* difference d being the one between the closes at positions d and d + 1
RECURSIVE SumMoves(_, _, _, _)
SumMoves(ps, lo, hi, up) ==
    IF hi < lo THEN 0
    ELSE LET diff == ps[hi + 1].n - ps[hi].n
             move == IF up THEN diff ELSE -diff
         IN  (IF move > 0 THEN move ELSE 0) + SumMoves(ps, lo, hi - 1, up)

\* 100 - 100 / (1 + avgGain / avgLoss) over the `period` differences ending at
\* difference d, in the arithmetic of the code: 100 when only the average loss
\* is 0, NaN when both averages are 0
TrailingRSI(ps, period, d) ==
    LET G == SumMoves(ps, d - period + 1, d, TRUE)
        L == SumMoves(ps, d - period + 1, d, FALSE)
    IN  IF L = 0 THEN (IF G = 0 THEN NaN ELSE Whole(100)) ELSE Num(100 * G, G + L)

\* C9 as stated: for more than `period` closes, calculateRSI returns one entry
\* per difference, null for the first `period` differences, and every later
\* entry computed from the simple mean of the trailing `period` gains and losses.
C9_RSIFirstPeriodNull ==
    (call.fn = "calculateRSI" /\ Len(prices) > call.period) =>
        /\ Len(ret.value) = Len(prices) - 1
        /\ \A d \in 1..call.period : ret.value[d] = Null
        /\ \A d \in (call.period + 1)..(Len(prices) - 1) :
              ret.value[d] = TrailingRSI(prices, call.period, d)

\* C9 amended: for more than `period` closes, calculateRSI returns one entry
\* per difference, null for the first `period` - 1 differences only, and every
\* entry from difference number `period` on computed from the simple mean of
\* the trailing `period` gains and losses.
C9_RSIFirstPeriodMinusOneNull ==
    (call.fn = "calculateRSI" /\ Len(prices) > call.period) =>
        /\ Len(ret.value) = Len(prices) - 1
        /\ \A d \in 1..(call.period - 1) : ret.value[d] = Null
        /\ \A d \in call.period..(Len(prices) - 1) :
              ret.value[d] = TrailingRSI(prices, call.period, d)

\* a call with nulls in front, a number at difference number `period`, and a
\* later entry
C9_Witness ==
    /\ call.fn = "calculateRSI"
    /\ call.period >= 2
    /\ Len(prices) > call.period + 1
    /\ ret.value[call.period - 1] = Null
    /\ ret.value[call.period].k = "num"
    /\ ret.value[call.period + 1].k = "num"
    /\ ret.value[call.period + 1] # ret.value[call.period]

-----------------------------------------------------------------------------
(* Properties of the portfolio functions *)

\* every entry is a number >= 0 and the entries add up to 1
IsWeightVector(w) ==
    /\ \A j \in 1..Len(w) : Ge(w[j], Zero)
    /\ reduceAdd(w, Zero) = Whole(1)

\* C3: every weight vector produced by the random-weight step of
\* generateEfficientFrontier and of runMonteCarloSimulation has entries >= 0
\* that sum to 1, whatever the draws.
C3_WeightsNormalised ==
    /\ (call.fn = "generateEfficientFrontier") =>
          \A p \in 1..Len(ret.value) : IsWeightVector(ret.value[p].weights)
    /\ (call.fn = "runMonteCarloSimulation") =>
          \A t \in 1..Len(call.arg) : IsWeightVector(call.arg[t])

\* the sum over the series of x (power = 1) or of x * x (power = 2)
RECURSIVE SumPowers(_, _)
SumPowers(series, power) ==
    IF series = <<>> THEN 0
    ELSE (IF power = 1 THEN Head(series).n ELSE Head(series).n * Head(series).n)
             + SumPowers(Tail(series), power)

\* the Bessel-corrected variance of a series of N >= 2 whole numbers:
\* (N * sum x^2 - (sum x)^2) / (N * (N - 1))
SampleVariance(series) ==
    LET N == Len(series)
    IN  Num(N * SumPowers(series, 2) - SumPowers(series, 1) * SumPowers(series, 1),
            N * (N - 1))

TwoIdenticalAssets ==
    /\ Len(selectedStocks) = 2
    /\ selectedStocks[1].dailyReturns = selectedStocks[2].dailyReturns
    /\ Len(selectedStocks[1].dailyReturns) >= 2

\* C4: with two selected assets of identical daily returns (over at least the
\* two days a covariance needs), the four entries of the covariance matrix
\* all equal the variance of the single asset, and every Monte Carlo sample
\* drawn with a normalised weight split has the volatility of the single asset.
C4_IdenticalAssetsKeepVolatility ==
    (call.fn = "runMonteCarloSimulation" /\ TwoIdenticalAssets) =>
        LET single == SampleVariance(selectedStocks[1].dailyReturns)
            cov    == calculateCovarianceMatrix(transposedReturns(selectedStocks))
        IN  /\ ret.outcome = "return"
            /\ Len(cov) = 2 /\ Len(cov[1]) = 2 /\ Len(cov[2]) = 2
            /\ \A r, c \in 1..2 : cov[r][c] = single
            /\ \A t \in 1..Len(ret.value) :
                  IsWeightVector(call.arg[t]) =>
                     ret.value[t].volatility = Sqrt(Mul(single, Whole(TradingDays)))

\* a sample of two identical assets whose returns vary, drawn with a split
\* that gives weight to both
C4_Witness ==
    /\ call.fn = "runMonteCarloSimulation"
    /\ TwoIdenticalAssets
    /\ SampleVariance(selectedStocks[1].dailyReturns) # Zero
    /\ Len(ret.value) >= 1
    /\ IsWeightVector(call.arg[1])
    /\ call.arg[1][1] # Zero /\ call.arg[1][2] # Zero
    /\ ret.value[1].volatility.k = "surd"

\* C6: calculateCovarianceMatrix fails with InsufficientDataError when the
\* return matrix is empty or has fewer than 2 rows, and returns no matrix then.
C6_CovarianceRejectsShortInput ==
    (call.fn = "calculateCovarianceMatrix" /\ Len(call.arg) < 2) =>
        /\ ret.outcome = "throw"
        /\ ret.value = "InsufficientDataError"

\* C7: findMaxSharpeRatio returns null for the empty collection (which is what
\* generateEfficientFrontier returns when no asset is selected); otherwise it
\* returns a point whose sharpeRatio is >= that of every point of the
\* collection, and of several such points the one at the lowest index.
C7_MaxSharpeIsFirstMaximum ==
    (call.fn = "findMaxSharpeRatio") =>
        /\ ret.outcome = "return"
        /\ generateEfficientFrontier(<<>>, FrontierWindow, <<>>) = {<<>>}
        /\ Len(call.arg) = 0 => ret.value = Null
        /\ Len(call.arg) > 0 =>
              \E i \in 1..Len(call.arg) :
                 /\ ret.value = call.arg[i]
                 /\ \A j \in 1..Len(call.arg) :
                       Ge(call.arg[i].sharpeRatio, call.arg[j].sharpeRatio)
                 /\ \A j \in 1..(i - 1) :
                       Gt(call.arg[i].sharpeRatio, call.arg[j].sharpeRatio)

-----------------------------------------------------------------------------
(* Properties of the component *)

\* every effect that was due has run
EffectsDone == pending = {}

SelectedSymbols == {selectedStocks[j].symbol : j \in 1..Len(selectedStocks)}

\* C10: once the effects have run to completion the optimisation state is the
\* one of the current selection: for an empty selection optimizedPortfolio is
\* null, portfolioWeights has no entry and monteCarloResults is null; otherwise
\* portfolioWeights has exactly the symbols of the selection as keys.
C10_OptimisationFollowsSelection ==
    EffectsDone =>
        IF Len(selectedStocks) = 0
        THEN /\ optimizedPortfolio = Null
             /\ DOMAIN portfolioWeights = {}
             /\ monteCarloResults = Null
        ELSE DOMAIN portfolioWeights = SelectedSymbols

====
